---- MODULE Spec2Model ----
(***************************************************************************)
(* Model of src/app.py: the StreamlitChatbot session (history, submit      *)
(* flag, widgets), the answer pipeline (search_internet, analyze_content,  *)
(* create_time_aware_prompt, get_search_response, get_direct_response)     *)
(* and the year extraction of extract_date_from_content.                   *)
(*                                                                         *)
(* A Python str is a sequence of atoms.  Text that comes from outside the  *)
(* program (queries, result bodies, model output, error details) is a      *)
(* sequence of single characters; a literal of the source that holds no    *)
(* digit is kept as one atom.  Substring tests and concatenation work on   *)
(* these sequences.                                                        *)
(***************************************************************************)
EXTENDS Integers, Sequences, FiniteSets, TLC

VARIABLES history, submit, enable_search, user_input, clear_chat, pc,
          search_results, analysis, response,
          ddgs_calls, ddgs_reply, ollama_calls, ollama_reply, st_errors, rendered,
          text, years_out, ai_now, ai_text, ai_out, fpc

vars == <<history, submit, enable_search, user_input, clear_chat, pc,
          search_results, analysis, response,
          ddgs_calls, ddgs_reply, ollama_calls, ollama_reply, st_errors, rendered,
          text, years_out, ai_now, ai_text, ai_out, fpc>>

sessionVars == <<history, submit, enable_search, user_input, clear_chat, pc,
                 search_results, analysis, response,
                 ddgs_calls, ddgs_reply, ollama_calls, ollama_reply, st_errors, rendered>>

funcVars == <<text, years_out, ai_now, ai_text, ai_out, fpc>>

(***************************************************************************)
(* Bounds of the model.                                                    *)
(***************************************************************************)
MaxExchanges == 2   \* submissions kept in the history before it must be cleared
MaxResults == 2     \* results the search provider hands back in one call
MaxChunks == 3      \* pieces a text fed to the year extraction is built from
MaxOutChunks == 2   \* pieces a model output fed to the post-processing is built from

(***************************************************************************)
(* Strings.                                                                *)
(***************************************************************************)
Empty == <<>>

None == <<"<None>">>

DigitChars == <<"0", "1", "2", "3", "4", "5", "6", "7", "8", "9">>

Digits == {DigitChars[i] : i \in 1..10}

Letters == {"a", "h", "i", "k", "n", "o", "y", "_"}

RECURSIVE Str(_)
Str(n) == IF n < 10 THEN <<DigitChars[n + 1]>>
          ELSE Str(n \div 10) \o <<DigitChars[(n % 10) + 1]>>

Contains(s, sub) ==
    \E i \in 0..(Len(s) - Len(sub)) : SubSeq(s, i + 1, i + Len(sub)) = sub

RECURSIVE Join(_, _)
Join(parts, sep) ==
    IF parts = <<>> THEN <<>>
    ELSE IF Len(parts) = 1 THEN parts[1]
    ELSE parts[1] \o sep \o Join(Tail(parts), sep)

RECURSIVE Reversed(_)
Reversed(s) == IF s = <<>> THEN <<>> ELSE Reversed(Tail(s)) \o <<Head(s)>>

(***************************************************************************)
(* extract_date_from_content: re.findall(r'\b20[12]\d\b', text)[-1]        *)
(***************************************************************************)
IsDigit(c) == c \in Digits

IsWord(c) == c \in Digits \cup Letters

WordAt(t, i) == i >= 1 /\ i <= Len(t) /\ IsWord(t[i])

\* \b between position i and position i + 1 of t
Boundary(t, i) == WordAt(t, i) # WordAt(t, i + 1)

ThirdDigit(c) == c \in {"1", "2"}

MatchAt(t, i) ==
    /\ i + 3 <= Len(t)
    /\ Boundary(t, i - 1)
    /\ t[i] = "2"
    /\ t[i + 1] = "0"
    /\ ThirdDigit(t[i + 2])
    /\ IsDigit(t[i + 3])
    /\ Boundary(t, i + 3)

\* the non-overlapping matches, scanning left to right from position i
RECURSIVE FindAll(_, _)
FindAll(t, i) ==
    IF i > Len(t) THEN <<>>
    ELSE IF MatchAt(t, i) THEN <<SubSeq(t, i, i + 3)>> \o FindAll(t, i + 4)
    ELSE FindAll(t, i + 1)

LastOf_First(years) == IF years # <<>> THEN years[1] ELSE None

LastOf(years) == IF years # <<>> THEN years[Len(years)] ELSE None

extract_date_from_content(t) == LastOf(FindAll(t, 1))

(***************************************************************************)
(* Literals of the source.                                                 *)
(***************************************************************************)
NoResultsText == <<"No search results found.">>

SorryText == <<"Sorry, there was an error generating a response: ">>

SearchErrorText == <<"Error searching internet: ">>

DirectSystemText == <<"You are a helpful AI assistant. Provide direct and engaging responses.">>

SearchSystemText(year) ==
    <<"You are an AI assistant in ">> \o Str(year)
        \o <<". Provide accurate, time-aware responses based on the provided information.">>

AsOfPrefix(year) == <<"As of ">> \o Str(year) \o <<", ">>

ModelName == "llama3.2"

(***************************************************************************)
(* What the collaborators and the user can hand to the program.            *)
(***************************************************************************)
\* datetime.now().year
Years == {2026, 2027}

\* what the user can have typed when the form is sent
Inputs == {Empty, <<"h", "i">>, <<"y", "o">>}

\* results of DDGS.text: dicts with or without a 'body' key
ResultSet ==
    { [title |-> <<"t">>, href |-> <<"u">>],
      [title |-> <<"t">>, href |-> <<"u">>, body |-> <<"i", "n", " ", "2", "0", "1", "5">>],
      [title |-> <<"t">>, href |-> <<"u">>, body |-> <<"a">>] }

RECURSIVE SeqsUpTo(_, _)
SeqsUpTo(S, n) ==
    IF n = 0 THEN {<<>>}
    ELSE LET shorter == SeqsUpTo(S, n - 1)
         IN  shorter \cup {Append(q, x) : q \in shorter, x \in S}

ErrorDetails == {<<"c", "o", "n", "n">>}

\* DDGS.text either raises or returns a list of results
SearchOutcomes ==
    {[kind |-> "raise", detail |-> d, results |-> <<>>] : d \in ErrorDetails}
    \cup {[kind |-> "ok", detail |-> Empty, results |-> rs] :
              rs \in SeqsUpTo(ResultSet, MaxResults)}

ModelTexts == {<<"o", "k">>, <<"i", "n", " ">> \o Str(2026)}

\* ollama.chat raises, returns a mapping without 'message', or returns content
ChatOutcomes ==
    {[kind |-> "raise", detail |-> d] : d \in ErrorDetails}
    \cup {[kind |-> "malformed", detail |-> <<"'message'">>]}
    \cup {[kind |-> "ok", detail |-> t] : t \in ModelTexts}

(***************************************************************************)
(* The answer pipeline.                                                    *)
(***************************************************************************)
HasBody(result) == "body" \in DOMAIN result

\* search_internet: the value returned for an outcome of DDGS.text
search_internet(outcome) ==
    IF outcome.kind = "raise" THEN <<>>
    ELSE SelectSeq(outcome.results, HasBody)

search_errors_Silent(outcome) == <<>>

\* search_internet: what it passes to st.error
search_errors(outcome) ==
    IF outcome.kind = "raise" THEN <<SearchErrorText \o outcome.detail>>
    ELSE <<>>

Bodies(results) == [i \in 1..Len(results) |-> results[i].body]

analyze_content(results, query, now) ==
    LET combined_content == Join(Bodies(results), <<" ">>)
    IN  [current_year |-> now,
         content_year |-> extract_date_from_content(combined_content),
         raw_content |-> combined_content,
         query |-> query]

NoAnalysis ==
    [current_year |-> 0, content_year |-> None, raw_content |-> Empty, query |-> Empty]

create_time_aware_prompt(a) ==
    <<"Based on the following information from ">> \o Str(a.current_year) \o <<":">>
        \o a.raw_content
        \o <<"Please provide a factual response about \"">> \o a.query \o <<"\" that:">>
        \o <<"1. Is accurate to the current year (">> \o Str(a.current_year) \o <<")">>
        \o <<"2. Explicitly mentions relevant dates and timeframes">>
        \o <<"3. Synthesizes information from multiple sources">>
        \o <<"4. Provides context when discussing time-sensitive information">>
        \o <<"Format the response as a clear, direct statement.">>

ChatCall(system, user) ==
    [model |-> ModelName,
     messages |-> << [role |-> "system", content |-> system],
                     [role |-> "user", content |-> user] >>]

SearchChatCall(a) == ChatCall(SearchSystemText(a.current_year), create_time_aware_prompt(a))

DirectChatCall_SearchSystem(query) == ChatCall(SearchSystemText(2026), query)

DirectChatCall(query) == ChatCall(DirectSystemText, query)

NeedsPrefix_Inverted(year, out) == Contains(out, Str(year))

\* lines 94-95: the year is put in front when the output lacks it
NeedsPrefix(year, out) == ~Contains(out, Str(year))

AnchorYear(year, out) ==
    IF NeedsPrefix(year, out) THEN AsOfPrefix(year) \o out ELSE out

ErrorResponse(outcome) == SorryText \o outcome.detail

SearchChatResponse_AnchorsErrors(a, outcome) ==
    AnchorYear(a.current_year,
               IF outcome.kind = "ok" THEN outcome.detail ELSE ErrorResponse(outcome))

\* get_search_response from the return of ollama.chat on
SearchChatResponse(a, outcome) ==
    IF outcome.kind = "ok" THEN AnchorYear(a.current_year, outcome.detail)
    ELSE ErrorResponse(outcome)

\* get_direct_response from the return of ollama.chat on
DirectChatResponse(outcome) ==
    IF outcome.kind = "ok" THEN outcome.detail
    ELSE ErrorResponse(outcome)

(***************************************************************************)
(* The session: st.session_state, the widgets and the script run.          *)
(***************************************************************************)
UserMessage(content) == [role |-> "user", content |-> content]

AssistantMessage(content) == [role |-> "assistant", content |-> content]

Truthy(s) == s # Empty

NoSearchReply == [kind |-> "none", detail |-> Empty, results |-> <<>>]

NoChatReply == [kind |-> "none", detail |-> Empty]

SessionInit ==
    /\ history = <<>>
    /\ submit = FALSE
    /\ enable_search = FALSE
    /\ user_input = Empty
    /\ clear_chat = FALSE
    /\ pc = "script"
    /\ search_results = <<>>
    /\ analysis = NoAnalysis
    /\ response = None
    /\ ddgs_calls = <<>>
    /\ ddgs_reply = NoSearchReply
    /\ ollama_calls = <<>>
    /\ ollama_reply = NoChatReply
    /\ st_errors = <<>>
    /\ rendered = <<>>

FuncIdle ==
    /\ text = Empty
    /\ years_out = None
    /\ ai_now = 0
    /\ ai_text = Empty
    /\ ai_out = None
    /\ fpc = "off"

Init == SessionInit /\ FuncIdle

\* the form is sent: submit_callback runs, then the script with the typed text
SubmitForm(q) ==
    /\ pc = "idle"
    /\ Len(history) < 2 * MaxExchanges
    /\ submit' = TRUE
    /\ user_input' = q
    /\ pc' = "script"
    /\ UNCHANGED <<history, enable_search, clear_chat, search_results, analysis, response,
                   ddgs_calls, ddgs_reply, ollama_calls, ollama_reply, st_errors, rendered>>
    /\ UNCHANGED funcVars

\* the toggle is flipped: the script runs again
ToggleSearch ==
    /\ pc = "idle"
    /\ enable_search' = ~enable_search
    /\ user_input' \in {user_input, Empty}
    /\ pc' = "script"
    /\ UNCHANGED <<history, submit, clear_chat, search_results, analysis, response,
                   ddgs_calls, ddgs_reply, ollama_calls, ollama_reply, st_errors, rendered>>
    /\ UNCHANGED funcVars

\* "Clear Chat" is clicked: the script runs again with the button set
ClickClear ==
    /\ pc = "idle"
    /\ clear_chat' = TRUE
    /\ user_input' \in {user_input, Empty}
    /\ pc' = "script"
    /\ UNCHANGED <<history, submit, enable_search, search_results, analysis, response,
                   ddgs_calls, ddgs_reply, ollama_calls, ollama_reply, st_errors, rendered>>
    /\ UNCHANGED funcVars

\* run, line 160
Handling == submit /\ Truthy(user_input)

\* run, lines 160-162: the submission goes to get_search_response, which calls DDGS.text
StartSearch ==
    /\ pc = "script"
    /\ Handling
    /\ enable_search
    /\ pc' = "searching"
    /\ ddgs_calls' = Append(ddgs_calls, user_input)
    /\ UNCHANGED <<history, submit, enable_search, user_input, clear_chat, search_results,
                   analysis, response, ddgs_reply, ollama_calls, ollama_reply, st_errors,
                   rendered>>
    /\ UNCHANGED funcVars

\* run, lines 160-164: the submission goes to get_direct_response, which calls ollama.chat
StartDirect ==
    /\ pc = "script"
    /\ Handling
    /\ ~enable_search
    /\ pc' = "thinking"
    /\ ollama_calls' = Append(ollama_calls, DirectChatCall(user_input))
    /\ UNCHANGED <<history, submit, enable_search, user_input, clear_chat, search_results,
                   analysis, response, ddgs_calls, ddgs_reply, ollama_reply, st_errors,
                   rendered>>
    /\ UNCHANGED funcVars

AddToHistory_AssistantFirst(r) ==
    /\ response' = r
    /\ history' = history \o <<AssistantMessage(r), UserMessage(user_input)>>
    /\ submit' = FALSE
    /\ user_input' \in {user_input, Empty}
    /\ pc' = "script"

AddToHistory_ReplyOnly(r) ==
    /\ response' = r
    /\ history' = history \o <<AssistantMessage(r)>>
    /\ submit' = FALSE
    /\ user_input' \in {user_input, Empty}
    /\ pc' = "script"

\* run, lines 166-172: both messages are appended, the flag is reset, st.rerun()
AddToHistory(r) ==
    /\ response' = r
    /\ history' = history \o <<UserMessage(user_input), AssistantMessage(r)>>
    /\ submit' = FALSE
    /\ user_input' \in {user_input, Empty}
    /\ pc' = "script"

NoResults_Never(found) == FALSE

\* get_search_response, line 70
NoResults(found) == found = <<>>

\* DDGS.text returns or raises; get_search_response goes on to line 71 or to ollama.chat
SearchReturns ==
    /\ pc = "searching"
    /\ \E outcome \in SearchOutcomes :
          LET found == search_internet(outcome) IN
          /\ ddgs_reply' = outcome
          /\ search_results' = found
          /\ st_errors' = st_errors \o search_errors(outcome)
          /\ IF NoResults(found)
             THEN /\ AddToHistory(NoResultsText)
                  /\ UNCHANGED <<analysis, ollama_calls>>
             ELSE \E now \in Years :
                  LET a == analyze_content(found, user_input, now) IN
                  /\ analysis' = a
                  /\ ollama_calls' = Append(ollama_calls, SearchChatCall(a))
                  /\ pc' = "generating"
                  /\ UNCHANGED <<history, submit, user_input, response>>
    /\ UNCHANGED <<enable_search, clear_chat, ddgs_calls, ollama_reply, rendered>>
    /\ UNCHANGED funcVars

SearchChatReturns_Propagates ==
    /\ pc = "generating"
    /\ \E outcome \in ChatOutcomes :
          /\ ollama_reply' = outcome
          /\ IF outcome.kind = "ok"
             THEN AddToHistory(SearchChatResponse(analysis, outcome))
             ELSE /\ pc' = "idle"
                  /\ UNCHANGED <<history, submit, user_input, response>>
    /\ UNCHANGED <<enable_search, clear_chat, search_results, analysis, ddgs_calls,
                   ddgs_reply, ollama_calls, st_errors, rendered>>
    /\ UNCHANGED funcVars

\* ollama.chat returns or raises inside get_search_response
SearchChatReturns ==
    /\ pc = "generating"
    /\ \E outcome \in ChatOutcomes :
          /\ ollama_reply' = outcome
          /\ AddToHistory(SearchChatResponse(analysis, outcome))
    /\ UNCHANGED <<enable_search, clear_chat, search_results, analysis, ddgs_calls,
                   ddgs_reply, ollama_calls, st_errors, rendered>>
    /\ UNCHANGED funcVars

\* ollama.chat returns or raises inside get_direct_response
DirectChatReturns ==
    /\ pc = "thinking"
    /\ \E outcome \in ChatOutcomes :
          /\ ollama_reply' = outcome
          /\ AddToHistory(DirectChatResponse(outcome))
    /\ UNCHANGED <<enable_search, clear_chat, search_results, analysis, ddgs_calls,
                   ddgs_reply, ollama_calls, st_errors, rendered>>
    /\ UNCHANGED funcVars

ClearHistory_OnlyWithoutSearch ==
    /\ pc = "script"
    /\ ~Handling
    /\ clear_chat
    /\ history' = (IF enable_search THEN history ELSE <<>>)
    /\ clear_chat' = FALSE
    /\ user_input' \in {user_input, Empty}
    /\ pc' = "script"
    /\ UNCHANGED <<submit, enable_search, search_results, analysis, response,
                   ddgs_calls, ddgs_reply, ollama_calls, ollama_reply, st_errors, rendered>>
    /\ UNCHANGED funcVars

\* run, lines 175-177: the button is set, the history is emptied, st.rerun()
ClearHistory ==
    /\ pc = "script"
    /\ ~Handling
    /\ clear_chat
    /\ history' = <<>>
    /\ clear_chat' = FALSE
    /\ user_input' \in {user_input, Empty}
    /\ pc' = "script"
    /\ UNCHANGED <<submit, enable_search, search_results, analysis, response,
                   ddgs_calls, ddgs_reply, ollama_calls, ollama_reply, st_errors, rendered>>
    /\ UNCHANGED funcVars

\* display_chat_history: most recent message first
display_chat_history(h) == Reversed(h)

\* run, line 180: nothing to handle, the history is displayed and the script run ends;
\* the locals of the run and the records of its collaborator calls go with it
Render ==
    /\ pc = "script"
    /\ ~Handling
    /\ ~clear_chat
    /\ rendered' = display_chat_history(history)
    /\ pc' = "idle"
    /\ search_results' = <<>>
    /\ analysis' = NoAnalysis
    /\ response' = None
    /\ ddgs_calls' = <<>>
    /\ ddgs_reply' = NoSearchReply
    /\ ollama_calls' = <<>>
    /\ ollama_reply' = NoChatReply
    /\ st_errors' = <<>>
    /\ UNCHANGED <<history, submit, enable_search, user_input, clear_chat>>
    /\ UNCHANGED funcVars

Next ==
    \/ \E q \in Inputs : SubmitForm(q)
    \/ ToggleSearch
    \/ ClickClear
    \/ StartSearch
    \/ StartDirect
    \/ SearchReturns
    \/ SearchChatReturns
    \/ DirectChatReturns
    \/ ClearHistory
    \/ Render

Spec == Init /\ [][Next]_vars

\* every call to a collaborator returns or raises, and the script runs to its end
FairSpec ==
    /\ Spec
    /\ WF_vars(StartSearch)
    /\ WF_vars(StartDirect)
    /\ WF_vars(SearchReturns)
    /\ WF_vars(SearchChatReturns)
    /\ WF_vars(DirectChatReturns)
    /\ WF_vars(ClearHistory)
    /\ WF_vars(Render)

(***************************************************************************)
(* extract_date_from_content on its own: a text is drawn, the function is  *)
(* applied to it.                                                          *)
(***************************************************************************)
YearChunks ==
    { Str(2015), Str(2021), Str(2009), Str(2030),
      <<"2">>, <<"0">>, <<"a">>, <<" ">> }

Flatten(chunks) == Join(chunks, <<>>)

YearTexts == {Flatten(cs) : cs \in SeqsUpTo(YearChunks, MaxChunks)}

InitYear ==
    /\ SessionInit
    /\ text \in YearTexts
    /\ years_out = None
    /\ ai_now = 0
    /\ ai_text = Empty
    /\ ai_out = None
    /\ fpc = "ready"

ExtractYear ==
    /\ fpc = "ready"
    /\ years_out' = extract_date_from_content(text)
    /\ fpc' = "done"
    /\ UNCHANGED <<text, ai_now, ai_text, ai_out>>
    /\ UNCHANGED sessionVars

NextYear == ExtractYear

SpecYear == InitYear /\ [][NextYear]_vars

(***************************************************************************)
(* The end of get_search_response on its own: a year and a model output    *)
(* are drawn, lines 92-97 are applied to them.                             *)
(***************************************************************************)
OutChunks == { Str(2026), Str(2027), <<"2", "0">>, <<"2", "6">>, <<"o", "k">>, <<" ">> }

OutTexts == {Flatten(cs) : cs \in SeqsUpTo(OutChunks, MaxOutChunks)}

InitAnchor ==
    /\ SessionInit
    /\ text = Empty
    /\ years_out = None
    /\ ai_now \in Years
    /\ ai_text \in OutTexts
    /\ ai_out = None
    /\ fpc = "ready"

AnchorResponse ==
    /\ fpc = "ready"
    /\ ai_out' = SearchChatResponse([NoAnalysis EXCEPT !.current_year = ai_now],
                                    [kind |-> "ok", detail |-> ai_text])
    /\ fpc' = "done"
    /\ UNCHANGED <<text, years_out, ai_now, ai_text>>
    /\ UNCHANGED sessionVars

NextAnchor == AnchorResponse

SpecAnchor == InitAnchor /\ [][NextAnchor]_vars

(***************************************************************************)
(* Properties.                                                             *)
(***************************************************************************)
Processing == {"searching", "generating", "thinking"}

\* the script run has just handled a submission and has not yet run again
JustHandled == pc = "script" /\ response # None

LastMessage == history[Len(history)]

LastUserMessage == history[Len(history) - 1]

\* C1: in search mode, when search_internet yields no result (the provider returned
\* nothing, only results without a body, or failed), the response is exactly
\* "No search results found." and ollama.chat is not called for that submission.
C1_EmptySearchShortCircuits ==
    (JustHandled /\ ddgs_calls # <<>> /\ search_results = <<>>)
        => /\ response = NoResultsText
           /\ LastMessage = AssistantMessage(NoResultsText)
           /\ ollama_calls = <<>>
           /\ ollama_reply = NoChatReply

C1_Witness ==
    /\ JustHandled
    /\ ddgs_reply.kind = "ok"
    /\ Len(ddgs_reply.results) = 2
    /\ search_results = <<>>
    /\ response = NoResultsText

\* C2: a model output that lacks the decimal string of the current year is returned
\* with "As of {currentYear}, " in front, an output that holds it is returned as it
\* is, and so the response of a successful call always holds the current year.
HoldsYear(s, year) ==
    \E i \in 1..Len(s) :
        /\ i + 3 <= Len(s)
        /\ <<s[i], s[i + 1], s[i + 2], s[i + 3]>> = Str(year)

C2_YearAnchored ==
    fpc = "done"
        => /\ HoldsYear(ai_text, ai_now) => ai_out = ai_text
           /\ ~HoldsYear(ai_text, ai_now)
                  => ai_out = <<"As of ">> \o Str(ai_now) \o <<", ">> \o ai_text
           /\ HoldsYear(ai_out, ai_now)

C2_Witness ==
    /\ fpc = "done"
    /\ ai_now = 2027
    /\ HoldsYear(ai_text, 2026)
    /\ ~HoldsYear(ai_text, 2027)
    /\ ai_out # ai_text

\* C3: in both modes an error of ollama.chat is caught: the response is exactly
\* "Sorry, there was an error generating a response: {detail}" with nothing in front,
\* it is the assistant's message in the history, and ollama.chat was called once.
C3_CompletionErrorIsAReply ==
    /\ Len(ollama_calls) <= 1
    /\ (JustHandled /\ ollama_reply.kind \in {"raise", "malformed"})
          => /\ response = SorryText \o ollama_reply.detail
             /\ LastMessage = AssistantMessage(SorryText \o ollama_reply.detail)
             /\ Len(ollama_calls) = 1

C3_Witness ==
    /\ JustHandled
    /\ ollama_reply.kind = "raise"
    /\ enable_search
    /\ response = SorryText \o ollama_reply.detail

\* C4: a submission with non-empty input q appends exactly two entries, the user's q
\* and then the assistant's response, once the pipeline has returned; the entries
\* already there stay, and nothing is appended before.
Appended ==
    /\ pc' = "script"
    /\ response' # None
    /\ history' = history \o << [role |-> "user", content |-> user_input],
                                [role |-> "assistant", content |-> response'] >>

C4_Step ==
    /\ (pc = "script" /\ submit /\ user_input # Empty)
          => (pc' \in {"searching", "thinking"} /\ history' = history)
    /\ pc = "searching" => ((pc' = "generating" /\ history' = history) \/ Appended)
    /\ pc \in {"generating", "thinking"} => Appended
    /\ pc = "idle" => history' = history
    /\ pc' = "idle" => ~(submit' /\ user_input' # Empty)

C4_TwoEntriesPerSubmission == [][C4_Step]_vars

C4_Witness ==
    /\ JustHandled
    /\ Len(history) = 4
    /\ history[1].content # history[3].content
    /\ history[4].content = response

\* C5: whenever the transcript is rendered it has even length and is made of
\* (user, assistant) pairs.
C5_TranscriptIsPairs ==
    pc = "idle"
        => /\ Len(history) % 2 = 0
           /\ \A i \in 1..Len(history) :
                 history[i].role = (IF i % 2 = 1 THEN "user" ELSE "assistant")
           /\ Len(rendered) = Len(history)

C5_Witness ==
    /\ pc = "idle"
    /\ Len(history) = 4
    /\ history[2].content = NoResultsText
    /\ history[4].content # NoResultsText

\* C6: a submission being handled always ends: whatever the search and the completion
\* do, the session comes back to idle with the submit flag reset, where a further
\* submission is taken.
IdleReady == pc = "idle" /\ ~submit

C6_AlwaysBackToIdle ==
    /\ (pc \in Processing) ~> IdleReady
    /\ [](IdleReady /\ Len(history) < 2 * MaxExchanges
              => ENABLED (\E q \in Inputs \ {Empty} : SubmitForm(q)))

C6_Witness ==
    /\ IdleReady
    /\ Len(history) = 4
    /\ Contains(history[2].content, SorryText)
    /\ ~Contains(history[4].content, SorryText)

\* C7: search_internet never raises: on a failure of the provider it reports through
\* st.error and returns the empty list, which is then answered as "no results"; on
\* success it returns exactly the results that have a body.
RECURSIVE WithBody(_)
WithBody(rs) ==
    IF rs = <<>> THEN <<>>
    ELSE IF "body" \in DOMAIN Head(rs) THEN <<Head(rs)>> \o WithBody(Tail(rs))
    ELSE WithBody(Tail(rs))

C7_SearchFailureIsNoResults ==
    /\ ddgs_reply.kind = "raise"
          => /\ search_results = <<>>
             /\ st_errors = << <<"Error searching internet: ">> \o ddgs_reply.detail >>
             /\ JustHandled
             /\ response = NoResultsText
             /\ ollama_calls = <<>>
    /\ ddgs_reply.kind = "ok"
          => /\ search_results = WithBody(ddgs_reply.results)
             /\ st_errors = <<>>

C7_Witness ==
    /\ ddgs_reply.kind = "raise"
    /\ st_errors # <<>>
    /\ LastMessage = AssistantMessage(NoResultsText)

\* C8 (as stated): extractYear returns the rightmost substring "20", one of 0 1 2,
\* any digit (2000-2029), and absent exactly when there is none.
ClaimYearAt(t, i) ==
    /\ i + 3 <= Len(t)
    /\ t[i] = "2"
    /\ t[i + 1] = "0"
    /\ t[i + 2] \in {"0", "1", "2"}
    /\ t[i + 3] \in Digits

ClaimYear(t) ==
    LET at == {i \in 1..Len(t) : ClaimYearAt(t, i)}
    IN  IF at = {} THEN None
        ELSE LET last == CHOOSE i \in at : \A j \in at : j <= i
             IN  SubSeq(t, last, last + 3)

C8_RightmostYear2000To2029 == fpc = "done" => years_out = ClaimYear(text)

\* C8 (amended): extract_date_from_content returns, as a string, the rightmost run
\* "20", one of 1 2, any digit (2010-2029) that has no word character right before
\* or right after it, and None exactly when there is no such run.
DelimitedYearAt(t, i) ==
    /\ i + 3 <= Len(t)
    /\ \E y \in 2010..2029 : SubSeq(t, i, i + 3) = Str(y)
    /\ (i = 1 \/ t[i - 1] \notin Digits \cup Letters)
    /\ (i + 3 = Len(t) \/ t[i + 4] \notin Digits \cup Letters)

DelimitedYear(t) ==
    LET at == {i \in 1..Len(t) : DelimitedYearAt(t, i)}
    IN  IF at = {} THEN None
        ELSE LET last == CHOOSE i \in at : \A j \in at : j <= i
             IN  SubSeq(t, last, last + 3)

C8_RightmostDelimitedYear == fpc = "done" => years_out = DelimitedYear(text)

C8_Witness ==
    /\ fpc = "done"
    /\ text = Str(2015) \o <<" ">> \o Str(2021)
    /\ years_out = Str(2021)

\* C9: the clear action empties the transcript whatever its length and whatever the
\* toggle, and from then on the transcript stays empty, and is rendered empty, until
\* a non-empty submission has been handled.
C9_Step ==
    /\ (pc = "script" /\ clear_chat) => (history' = <<>> /\ ~clear_chat')
    /\ (pc = "idle" /\ clear_chat') => (pc' = "script" /\ history' = history)
    /\ (history = <<>> /\ history' # <<>>)
          => (pc \in Processing /\ submit /\ user_input # Empty)
    /\ pc' = "idle" => rendered' = Reversed(history')

C9_ClearEmptiesTranscript == [][C9_Step]_vars

C9_Witness ==
    /\ pc = "script"
    /\ ~clear_chat
    /\ enable_search
    /\ history = <<>>
    /\ Len(rendered) = 4

\* C10: with the toggle off a submission q runs direct mode: DDGS.text is not
\* called, ollama.chat is called once with the direct system message and with q as
\* the user message, and on success the response is the model's text as it is.
C10_DirectMode ==
    /\ (pc = "thinking")
          => /\ ~enable_search
             /\ ddgs_calls = <<>>
             /\ ollama_calls =
                  << [model |-> "llama3.2",
                      messages |-> << [role |-> "system", content |-> DirectSystemText],
                                      [role |-> "user", content |-> user_input] >>] >>
    /\ (JustHandled /\ ~enable_search)
          => /\ ddgs_calls = <<>>
             /\ ddgs_reply.kind = "none"
             /\ ollama_calls =
                  << [model |-> "llama3.2",
                      messages |-> << [role |-> "system", content |-> DirectSystemText],
                                      [role |-> "user",
                                       content |-> LastUserMessage.content] >>] >>
             /\ ollama_reply.kind = "ok" => response = ollama_reply.detail

C10_Witness ==
    /\ JustHandled
    /\ ~enable_search
    /\ ollama_reply.kind = "ok"
    /\ response = <<"o", "k">>
    /\ LastMessage.content = <<"o", "k">>

====
